---- MODULE Spec2Model ----
(***************************************************************************)
(* Shadow stateless validation of nearcore                                 *)
(* (chain/client/src/stateless_validation/shadow_validate.rs).             *)
(*                                                                         *)
(* Three specifications share the definitions of this module:              *)
(*   ReduceSpec  repeated calls of Client::apply_transition_state_cache    *)
(*               on the per-shard LRU caches of Client::state_cache;       *)
(*   RecordSpec  repeated calls of                                         *)
(*               record_storage_proof_value_size_distribution;             *)
(*   Spec        the block driver, the per-chunk orchestrator and the      *)
(*               detached rayon tasks it spawns.                           *)
(***************************************************************************)
EXTENDS Integers, Sequences, FiniteSets, TLC

VARIABLES
    state_cache,          \* Client::state_cache: shard id -> LruCache
    cache_updated_count,  \* STATE_VALUES_CACHE_UPDATED_COUNT, by shard
    cache_size_gauge,     \* STATE_VALUES_CACHE_SIZE, by shard
    call,                 \* the last apply_transition_state_cache call
    kept_large,           \* by shard: the large values its last call kept
    ncalls,               \* number of calls made (ReduceSpec, RecordSpec)
    feature,              \* cfg!(feature = "shadow_chunk_validation")
    pc,                   \* where the synchronous path stands
    todo,                 \* the new chunks of the block still to visit
    chunk,                \* the chunk being shadow validated
    result,               \* what shadow_validate_block_chunks returned last:
                          \* "Ok", or "Err(..)" naming the call that failed
    witness,              \* shadow_validate_chunk's local `witness`
    witness_bytes,        \* shadow_validate_chunk's local `witness_bytes`
    tasks,                \* closures given to rayon::spawn, not yet run
    failed_total,         \* SHADOW_CHUNK_VALIDATION_FAILED_TOTAL
    observations,         \* what the histograms have observed
    size_distribution,    \* ..STORAGE_PROOF_VALUES_SIZE_TOTAL, by shard, label
    log,                  \* history: what happened to each chunk
    in_call               \* history: the first chunk id and the number of
                          \* new chunks of the current block-level call

reduceVars ==
    <<state_cache, cache_updated_count, cache_size_gauge, call, kept_large,
      ncalls>>

cacheVars == <<state_cache, cache_updated_count, cache_size_gauge>>

callVars == <<call, kept_large, ncalls>>

localVars == <<chunk, witness, witness_bytes>>

metricVars == <<failed_total, observations, size_distribution>>

pipeVars ==
    <<feature, pc, todo, chunk, result, witness, witness_bytes, tasks,
      failed_total, observations, size_distribution, log, in_call>>

vars == <<reduceVars, pipeVars>>

(***************************************************************************)
(* Program constants.                                                      *)
(***************************************************************************)
CUT_OFF_VALUE_SIZE == 32000

MAX_CACHE_SIZE == 1000

(***************************************************************************)
(* Bounds of the model.                                                    *)
(***************************************************************************)
\* Number of apply_transition_state_cache calls explored by ReduceSpec.
MaxCalls == 2

\* Number of chunks shadow validated in a behaviour of Spec.
MaxChunks == 2

\* Number of record_storage_proof_value_size_distribution calls explored by
\* RecordSpec.
MaxRecords == 2

(***************************************************************************)
(* Proof values.  A value is a byte string; the model keeps its length and *)
(* a tag `body` that tells apart different contents of the same length.    *)
(***************************************************************************)
V(len, body) == [len |-> len, body |-> body]

\* CryptoHash::hash_bytes: a collision-free digest of the bytes.
hash_bytes(v) == v.len * 4096 + v.body

ShardIds == {0, 3}

\* Values around the cut-off, with two different contents of one length.
Values == {V(50, 1), V(32000, 1), V(40000, 1), V(40000, 2)}

\* n different large values of one length.
Bulk(n) == [i \in 1..n |-> V(33000, i)]

\* The value lists handed to single calls: every list of at most two of
\* Values, the lists of the scenarios of three values, and lists of about
\* MAX_CACHE_SIZE different large values.
SmallTransitions ==
    {<<>>} \cup {<<a>> : a \in Values} \cup {<<a, b>> : a, b \in Values}
      \cup { <<V(50, 1), V(40000, 1), V(35000, 1)>>,
             <<V(40000, 1), V(36000, 1)>>,
             <<V(31999, 1), V(40000, 2), V(31999, 1)>>,
             <<V(33000, 1), V(33000, MAX_CACHE_SIZE + 1)>>,
             <<V(33000, MAX_CACHE_SIZE), V(33000, MAX_CACHE_SIZE + 1)>>,
             <<V(33000, MAX_CACHE_SIZE + 1)>>,
             <<V(33000, MAX_CACHE_SIZE)>> }

BulkTransitions ==
    {Bulk(n) : n \in {MAX_CACHE_SIZE - 1, MAX_CACHE_SIZE, MAX_CACHE_SIZE + 1}}
      \cup { <<V(40000, 1)>> \o Bulk(MAX_CACHE_SIZE - 1) }

(***************************************************************************)
(* lru::LruCache<CryptoHash, ()>: the keys from least to most recently     *)
(* used, without repetition.                                               *)
(***************************************************************************)
LruContains(cache, k) == \E i \in 1..Len(cache) : cache[i] = k

\* A lookup that leaves the order as it is (LruCache::peek).
LruPeek(cache, k) == [hit |-> LruContains(cache, k), cache |-> cache]

\* LruCache::get: a hit makes the key the most recently used.
LruGet(cache, k) ==
    IF LruContains(cache, k)
    THEN [hit |-> TRUE, cache |-> Append(SelectSeq(cache, LAMBDA x : x # k), k)]
    ELSE [hit |-> FALSE, cache |-> cache]

\* A push that forgets to evict at capacity.
LruPushNoEvict(cache, k) ==
    Append(SelectSeq(cache, LAMBDA x : x # k), k)

\* A push that evicts the most recently used key.
LruPushEvictNewest(cache, k) ==
    IF LruContains(cache, k)
    THEN Append(SelectSeq(cache, LAMBDA x : x # k), k)
    ELSE IF Len(cache) = MAX_CACHE_SIZE
    THEN Append(SubSeq(cache, 1, Len(cache) - 1), k)
    ELSE Append(cache, k)

\* LruCache::push: a present key becomes the most recently used; a new key
\* at capacity evicts the least recently used one.
LruPush(cache, k) ==
    IF LruContains(cache, k)
    THEN Append(SelectSeq(cache, LAMBDA x : x # k), k)
    ELSE IF Len(cache) = MAX_CACHE_SIZE
    THEN Append(Tail(cache), k)
    ELSE Append(cache, k)

\* One cache for all the shards: the entry of whichever shard came first.
CacheEntryShared(sc, shard_id) ==
    IF DOMAIN sc = {} THEN <<>>
    ELSE sc[CHOOSE s \in DOMAIN sc : \A t \in DOMAIN sc : s <= t]

\* self.state_cache.entry(shard_id).or_insert_with(|| LruCache::new(..))
CacheEntry(sc, shard_id) ==
    IF shard_id \in DOMAIN sc THEN sc[shard_id] ELSE <<>>

Reverse(s) == [i \in 1..Len(s) |-> s[Len(s) + 1 - i]]

SeqRange(s) == {s[i] : i \in 1..Len(s)}

(***************************************************************************)
(* Client::apply_transition_state_cache.                                   *)
(***************************************************************************)
\* The closure with is_some() for is_none(): a large value is kept on a hit.
RetainStepInverted(st, v) ==
    IF v.len < CUT_OFF_VALUE_SIZE
    THEN [cache |-> st.cache, kept |-> Append(st.kept, v)]
    ELSE LET got == LruGet(st.cache, hash_bytes(v))
         IN  IF got.hit
             THEN [cache |-> got.cache, kept |-> Append(st.kept, v)]
             ELSE [cache |-> st.cache, kept |-> st.kept]

\* A closure that inserts the hash of a large value as soon as it misses:
\* a second copy of the value in the same list hits.
RetainStepInserting(st, v) ==
    IF v.len < CUT_OFF_VALUE_SIZE
    THEN [cache |-> st.cache, kept |-> Append(st.kept, v)]
    ELSE LET got == LruGet(st.cache, hash_bytes(v))
         IN  IF got.hit
             THEN [cache |-> got.cache, kept |-> st.kept]
             ELSE [cache |-> LruPush(st.cache, hash_bytes(v)),
                   kept  |-> Append(st.kept, v)]

\* The closure of values.retain: a short value is kept without a lookup
\* (|| short-circuits); a large one is looked up with cache.get, which
\* refreshes a hit, and is kept when the lookup misses.
RetainStep(st, v) ==
    IF v.len < CUT_OFF_VALUE_SIZE
    THEN [cache |-> st.cache, kept |-> Append(st.kept, v)]
    ELSE LET got == LruGet(st.cache, hash_bytes(v))
         IN  IF got.hit
             THEN [cache |-> got.cache, kept |-> st.kept]
             ELSE [cache |-> st.cache, kept |-> Append(st.kept, v)]

\* values.retain(..): the closure applied to the values from first to last.
\* The list is folded by halves, the left half first (Len forces it), which
\* keeps the depth of evaluation logarithmic in the length of the list.
RECURSIVE Retain(_, _)
Retain(st, values) ==
    IF values = <<>> THEN st
    ELSE IF Len(values) = 1 THEN RetainStep(st, values[1])
    ELSE LET m == Len(values) \div 2
             left == Retain(st, SubSeq(values, 1, m))
         IN  IF Len(left.kept) >= 0
             THEN Retain(left, SubSeq(values, m + 1, Len(values)))
             ELSE left

\* The lengths of a set of values, ascending.
RECURSIVE Ascending(_)
Ascending(lens) ==
    IF lens = {} THEN <<>>
    ELSE LET lo == CHOOSE x \in lens : \A y \in lens : x <= y
         IN  <<lo>> \o Ascending(lens \ {lo})

RECURSIVE ConcatByLen(_, _)
ConcatByLen(values, lens) ==
    IF lens = <<>> THEN <<>>
    ELSE SelectSeq(values, LAMBDA v : v.len = Head(lens))
           \o ConcatByLen(values, Tail(lens))

\* A sort that leaves the list as it was.
sort_by_key_skipped(values) == values

\* A sort that also removes repeated values (sort, then dedup).
sort_by_key_dedup(values) ==
    LET lens == Ascending({values[i].len : i \in 1..Len(values)})
        firsts == SelectSeq([i \in 1..Len(values) |-> [v |-> values[i], i |-> i]],
                            LAMBDA e : \A j \in 1..(e.i - 1) : values[j] # e.v)
    IN  ConcatByLen([i \in 1..Len(firsts) |-> firsts[i].v], lens)

\* values.sort_by_key(|v| v.len()): a stable sort, values of equal length
\* keep their relative order.
sort_by_key(values) ==
    ConcatByLen(values, Ascending({values[i].len : i \in 1..Len(values)}))

\* for v in ..: cache.push(hash(v), ()), from the first key to the last,
\* folded by halves as Retain is.
RECURSIVE PushAll(_, _)
PushAll(cache, keys) ==
    IF keys = <<>> THEN cache
    ELSE IF Len(keys) = 1 THEN LruPush(cache, keys[1])
    ELSE LET m == Len(keys) \div 2
             left == PushAll(cache, SubSeq(keys, 1, m))
         IN  IF Len(left) >= 0
             THEN PushAll(left, SubSeq(keys, m + 1, Len(keys)))
             ELSE left

\* The loop without rev(): from the smallest value to the largest.
PushedValuesForward(values) ==
    SelectSeq(values, LAMBDA v : v.len >= CUT_OFF_VALUE_SIZE)

\* The filter with > for >=.
PushedValuesStrict(values) ==
    SelectSeq(Reverse(values), LAMBDA v : v.len > CUT_OFF_VALUE_SIZE)

\* values.iter().rev().filter(|v| v.len() >= CUT_OFF_VALUE_SIZE)
PushedValues(values) ==
    SelectSeq(Reverse(values), LAMBDA v : v.len >= CUT_OFF_VALUE_SIZE)

\* The whole function: the new state_cache, the new value list of the
\* transition, the keys pushed (in order) and the `updated` flag.
apply_transition_state_cache(sc, shard_id, values) ==
    LET cache    == CacheEntry(sc, shard_id)
        retained == Retain([cache |-> cache, kept |-> <<>>], values)
        sorted   == sort_by_key(retained.kept)
        pushed   == PushedValues(sorted)
        keys     == [i \in 1..Len(pushed) |-> hash_bytes(pushed[i])]
        after    == PushAll(retained.cache, keys)
    IN  [ state_cache |-> [s \in DOMAIN sc \cup {shard_id} |->
                             IF s = shard_id THEN after ELSE sc[s]],
          values      |-> sorted,
          pushed      |-> keys,
          updated     |-> pushed # <<>> ]

(***************************************************************************)
(* ReduceSpec: calls of apply_transition_state_cache, one after another.   *)
(***************************************************************************)
NoCall == [shard |-> -1]

LargeOf(values) ==
    {values[i] : i \in {j \in 1..Len(values) : values[j].len >= CUT_OFF_VALUE_SIZE}}

InitReduce ==
    /\ state_cache = << >>
    /\ cache_updated_count = [s \in ShardIds |-> 0]
    /\ cache_size_gauge = [s \in ShardIds |-> 0]
    /\ call = NoCall
    /\ kept_large = [s \in ShardIds |-> {}]
    /\ ncalls = 0

\* One call; the metrics of lines 193-200 are part of it.
Reduce(shard_id, values) ==
    LET r == apply_transition_state_cache(state_cache, shard_id, values)
    IN  /\ state_cache' = r.state_cache
        /\ cache_updated_count' =
             [cache_updated_count EXCEPT
                ![shard_id] = IF r.updated THEN @ + 1 ELSE @]
        /\ cache_size_gauge' =
             [cache_size_gauge EXCEPT ![shard_id] = Len(r.state_cache[shard_id])]
        /\ call' = [ shard  |-> shard_id,
                     before |-> CacheEntry(state_cache, shard_id),
                     input  |-> values,
                     output |-> r.values,
                     pushed |-> r.pushed,
                     prev   |-> kept_large[shard_id] ]
        /\ kept_large' = [kept_large EXCEPT ![shard_id] = LargeOf(r.values)]

ReduceSmall ==
    /\ ncalls < MaxCalls
    /\ \E shard_id \in ShardIds, values \in SmallTransitions :
          Reduce(shard_id, values)
    /\ ncalls' = ncalls + 1
    /\ UNCHANGED pipeVars

\* The lists of about MAX_CACHE_SIZE values are explored as a first call,
\* on shard 0: the shard id is only the key of the cache, and the calls
\* that follow go to either shard.
ReduceBulk ==
    /\ ncalls = 0
    /\ \E values \in BulkTransitions : Reduce(0, values)
    /\ ncalls' = ncalls + 1
    /\ UNCHANGED pipeVars

ReduceNext == ReduceSmall \/ ReduceBulk

(***************************************************************************)
(* Claims about apply_transition_state_cache (`reduce`), under ReduceSpec. *)
(***************************************************************************)
Count(s, v) == Cardinality({i \in 1..Len(s) : s[i] = v})

Called == call.shard \in ShardIds

\* The values the last call removed: fewer copies come out than went in.
Removed ==
    {v \in SeqRange(call.input) : Count(call.output, v) < Count(call.input, v)}

Distinct(s) == \A i, j \in 1..Len(s) : s[i] = s[j] => i = j

\* C1 (soundness of elision): every value the call removed has length
\* >= 32000 and its hash was in the shard's cache before the call.
C1_Soundness ==
    Called =>
      \A v \in Removed :
         /\ v.len >= CUT_OFF_VALUE_SIZE
         /\ LruContains(call.before, hash_bytes(v))

C1_Witness == Called /\ Removed # {} /\ Len(call.output) > 0

\* C2 (completeness of elision): every value shorter than 32000 comes out
\* as it went in, as many times as it went in; nothing comes out that did
\* not go in.
C2_Completeness ==
    Called =>
      /\ \A v \in SeqRange(call.input) :
            v.len < CUT_OFF_VALUE_SIZE =>
               Count(call.output, v) = Count(call.input, v)
      /\ \A v \in SeqRange(call.output) :
            Count(call.output, v) <= Count(call.input, v)

C2_Witness ==
    /\ Called
    /\ Removed # {}
    /\ \E v \in SeqRange(call.input) :
          v.len < CUT_OFF_VALUE_SIZE /\ Count(call.input, v) = 2

\* C3 (ordering): after the call the value list is ascending by length.
C3_Sorted ==
    Called =>
      \A i \in 1..(Len(call.output) - 1) :
         call.output[i].len <= call.output[i + 1].len

C3_Witness ==
    /\ Called
    /\ Len(call.output) = 3
    /\ \E i \in 1..2 : call.input[i].len > call.input[i + 1].len
    /\ call.before # <<>>

\* C4 (cache bound): no shard's cache ever holds more than 1000 entries.
C4_CacheBound ==
    \A s \in DOMAIN state_cache : Len(state_cache[s]) <= MAX_CACHE_SIZE

C4_Witness ==
    /\ Called
    /\ Cardinality(LargeOf(call.input)) > MAX_CACHE_SIZE
    /\ Len(state_cache[call.shard]) = MAX_CACHE_SIZE

\* C5 (LRU eviction at capacity).  For a call whose large values all miss:
\* with the cache full before it, its k new keys push out exactly the k
\* least recently used entries and the size stays 1000; 1001 new keys into
\* an empty cache leave 1000, without the first one pushed.  A large value
\* whose hash is not in the cache (an evicted one too) is kept by the call.
C5_LruEviction ==
    Called =>
      LET after == state_cache[call.shard]
          k     == Len(call.pushed)
          fresh == /\ Distinct(call.pushed)
                   /\ \A v \in LargeOf(call.input) :
                         ~LruContains(call.before, hash_bytes(v))
      IN  /\ (fresh /\ Len(call.before) = MAX_CACHE_SIZE /\ k <= MAX_CACHE_SIZE) =>
                after = SubSeq(call.before, k + 1, MAX_CACHE_SIZE) \o call.pushed
          /\ (fresh /\ call.before = <<>> /\ k = MAX_CACHE_SIZE + 1) =>
                /\ Len(after) = MAX_CACHE_SIZE
                /\ ~LruContains(after, call.pushed[1])
                /\ \A i \in 2..k : LruContains(after, call.pushed[i])
          /\ \A v \in LargeOf(call.input) :
                ~LruContains(call.before, hash_bytes(v)) =>
                   Count(call.output, v) = Count(call.input, v)

\* The first value pushed of 1001 was evicted, is submitted again, and is
\* kept; being new to the full cache, it evicts the least recently used.
C5_Witness ==
    /\ Called
    /\ call.prev = LargeOf(Bulk(MAX_CACHE_SIZE + 1))
    /\ Len(call.before) = MAX_CACHE_SIZE
    /\ call.input = <<V(33000, MAX_CACHE_SIZE + 1)>>
    /\ call.output = call.input
    /\ state_cache[call.shard] =
         Tail(call.before) \o <<hash_bytes(V(33000, MAX_CACHE_SIZE + 1))>>

\* C6 (a repeated value is elided).  If the call kept at most 1000
\* different large values, all their hashes are in the shard's cache on
\* return; the next call on the shard drops every copy of a value the
\* previous call kept, and keeps the large values whose hash is not cached.
\* Scenario A: [50, 40000, 35000] on an empty cache comes out as
\* [50, 35000, 40000] and both large hashes are cached.
C6_RepeatElided ==
    Called =>
      /\ Cardinality(LargeOf(call.output)) <= MAX_CACHE_SIZE =>
            \A v \in LargeOf(call.output) :
               LruContains(state_cache[call.shard], hash_bytes(v))
      /\ Cardinality(call.prev) <= MAX_CACHE_SIZE =>
            /\ \A v \in call.prev : Count(call.output, v) = 0
            /\ \A v \in LargeOf(call.input) :
                  ~LruContains(call.before, hash_bytes(v)) =>
                     Count(call.output, v) = Count(call.input, v)
      /\ (call.before = <<>>
            /\ call.input = <<V(50, 1), V(40000, 1), V(35000, 1)>>) =>
            /\ call.output = <<V(50, 1), V(35000, 1), V(40000, 1)>>
            /\ state_cache[call.shard] =
                 <<hash_bytes(V(40000, 1)), hash_bytes(V(35000, 1))>>

\* Scenario B: the 40000-byte value of the previous call comes again, with
\* a new 36000-byte value; only the latter is kept.
C6_Witness ==
    /\ Called
    /\ V(40000, 1) \in call.prev
    /\ call.input = <<V(40000, 1), V(36000, 1)>>
    /\ call.output = <<V(36000, 1)>>

(***************************************************************************)
(* Serialization and compression, as far as the pipeline measures them.    *)
(* A serialized witness is the list of its fields; each field has a length *)
(* in bytes.  The parts of the witness other than the shard id and the     *)
(* values of its transitions are opaque to the pipeline and left out.      *)
(***************************************************************************)
RECURSIVE Flatten(_)
Flatten(ss) == IF ss = <<>> THEN <<>> ELSE Head(ss) \o Flatten(Tail(ss))

RECURSIVE BytesLen(_)
BytesLen(bytes) ==
    IF bytes = <<>> THEN 0 ELSE Head(bytes).len + BytesLen(Tail(bytes))

U32(n) == [len |-> 4, body |-> n, enc |-> "u32"]

U64(n) == [len |-> 8, body |-> n, enc |-> "u64"]

\* PartialState::TrieValues(Vec<Arc<[u8]>>): a count, then each value
\* behind its length.
BorshValues(values) ==
    <<U32(Len(values))>>
      \o Flatten([i \in 1..Len(values) |-> <<U32(values[i].len), values[i]>>])

\* borsh::to_vec(&witness)
to_vec(w) ==
    <<U64(w.shard_id)>>
      \o BorshValues(w.main_state_transition)
      \o <<U32(Len(w.implicit_transitions))>>
      \o Flatten([i \in 1..Len(w.implicit_transitions) |->
                    BorshValues(w.implicit_transitions[i])])

\* zstd encode_all: a frame header, then the data.  The codec's ratio is
\* not modelled: the frame stores the data.
encode_all(bytes, level) ==
    <<[len |-> 13, body |-> level, enc |-> "zstd"]>> \o bytes

\* zstd decode_all
decode_all(frame) == Tail(frame)

\* The values held by a witness, main transition first.
WitnessValues(w) ==
    w.main_state_transition \o Flatten(w.implicit_transitions)

\* The proof values among serialized fields.
ValuesIn(bytes) == SelectSeq(bytes, LAMBDA f : DOMAIN f = {"len", "body"})

(***************************************************************************)
(* record_storage_proof_value_size_distribution                            *)
(***************************************************************************)
sizes == <<0, 100, 1000, 4000, 16000, 32000, 64000, 128000>>

\* (v..next or v..usize::MAX, "{v}..{next}" or "{v}..inf")
ranges ==
    [i \in 1..Len(sizes) |->
       [ lo    |-> sizes[i],
         last  |-> i = Len(sizes),
         hi    |-> IF i < Len(sizes) THEN sizes[i + 1] ELSE 0,
         label |-> ToString(sizes[i]) \o ".."
                     \o (IF i < Len(sizes) THEN ToString(sizes[i + 1]) ELSE "inf") ]]

Labels == {ranges[i].label : i \in 1..Len(ranges)}

\* A range that includes its end (lo..=hi).
RangeContainsInclusive(rng, n) == rng.lo <= n /\ (rng.last \/ n <= rng.hi)

\* rng.contains(&val.len())
RangeContains(rng, n) == rng.lo <= n /\ (rng.last \/ n < rng.hi)

\* The first range holding n (the loop breaks at it); 0 if there is none.
FirstRange(n) ==
    LET hits == {i \in 1..Len(ranges) : RangeContains(ranges[i], n)}
    IN  IF hits = {} THEN 0 ELSE CHOOSE i \in hits : \A j \in hits : i <= j

RECURSIVE RecordValues(_, _, _)
RecordValues(dist, shard_id, values) ==
    IF values = <<>> THEN dist
    ELSE LET val == Head(values)
             i   == FirstRange(val.len)
             d   == IF i = 0 THEN dist
                    ELSE [dist EXCEPT ![<<shard_id, ranges[i].label>>] = @ + val.len]
         IN  RecordValues(d, shard_id, Tail(values))

(***************************************************************************)
(* compress_large_storage_proof_values                                     *)
(***************************************************************************)
COMPRESS_CUT_OFF_VALUE_SIZE == 128000

\* *val = compressed.into(): the value becomes the bytes of its frame.
CompressedValue(val) ==
    [ len  |-> BytesLen(encode_all(<<val>>, 0)),
      body |-> val.body,
      enc  |-> "zstd" ]

apply_transition_storage_proof_compression(values) ==
    [i \in 1..Len(values) |->
       IF values[i].len >= COMPRESS_CUT_OFF_VALUE_SIZE
       THEN CompressedValue(values[i])
       ELSE values[i]]

\* The witness as the task leaves it.
CompressLargeValues(w) ==
    [ shard_id |-> w.shard_id,
      main_state_transition |->
          apply_transition_storage_proof_compression(w.main_state_transition),
      implicit_transitions |->
          [i \in 1..Len(w.implicit_transitions) |->
             apply_transition_storage_proof_compression(w.implicit_transitions[i])] ]

(***************************************************************************)
(* Client::apply_witness_state_cache: the main transition, then each       *)
(* implicit transition, against the cache of the witness's shard.          *)
(***************************************************************************)
RECURSIVE ReduceImplicit(_, _, _)
ReduceImplicit(st, shard_id, transitions) ==
    IF transitions = <<>> THEN st
    ELSE LET r == apply_transition_state_cache(st.state_cache, shard_id,
                                               Head(transitions))
         IN  ReduceImplicit(
               [ state_cache |-> r.state_cache,
                 done        |-> Append(st.done, r.values),
                 updates     |-> st.updates + (IF r.updated THEN 1 ELSE 0) ],
               shard_id, Tail(transitions))

\* The new state_cache, the witness as reduced, and how many of the calls
\* updated the cache.
apply_witness_state_cache(sc, w) ==
    LET m  == apply_transition_state_cache(sc, w.shard_id, w.main_state_transition)
        im == ReduceImplicit(
                [ state_cache |-> m.state_cache, done |-> <<>>,
                  updates |-> IF m.updated THEN 1 ELSE 0 ],
                w.shard_id, w.implicit_transitions)
    IN  [ state_cache |-> im.state_cache,
          witness     |-> [ shard_id |-> w.shard_id,
                            main_state_transition |-> m.values,
                            implicit_transitions  |-> im.done ],
          updates     |-> im.updates ]

\* The recorder called after reduce has worked on the witness itself: it
\* sees what reduce left.
record_after_reduce(dist, w) ==
    RecordValues(dist, w.shard_id,
                 WitnessValues(apply_witness_state_cache(state_cache, w).witness))

\* Lines 204-237: every value of the main and of the implicit transitions.
record_storage_proof_value_size_distribution(dist, w) ==
    RecordValues(dist, w.shard_id, WitnessValues(w))

(***************************************************************************)
(* Spec: Client::shadow_validate_block_chunks, shadow_validate_chunk and   *)
(* the closures given to rayon::spawn.                                     *)
(***************************************************************************)
NoWitness ==
    [shard_id |-> -1, main_state_transition |-> <<>>, implicit_transitions |-> <<>>]

NoChunk == [id |-> 0, shard_id |-> -1]

\* block.chunks(): chunk headers, new at this height or not.
ChunkHeader(shard_id, is_new) == [shard_id |-> shard_id, is_new |-> is_new]

Blocks ==
    { <<ChunkHeader(0, FALSE), ChunkHeader(3, FALSE)>>,
      <<ChunkHeader(0, TRUE), ChunkHeader(3, FALSE)>>,
      <<ChunkHeader(0, TRUE), ChunkHeader(3, TRUE)>> }

\* .filter(|chunk| chunk.is_new_chunk(block.header().height()))
NewChunks(block) == SelectSeq(block, LAMBDA c : c.is_new)

\* What create_state_witness_inner may build: a repeated large value in the
\* main and an implicit transition, a value above the compression cut-off.
\* (Witnesses of other shapes are recorded in RecordSpec and reduced in
\* ReduceSpec; here every chunk gets this one, so that three chunks with
\* all the interleavings of their tasks stay within reach.)
WitnessInputs ==
    { [main |-> <<V(40000, 1), V(130000, 1)>>,
       implicit |-> << <<V(40000, 1), V(36000, 1)>> >>] }

Obs(name, shard_id, label, value, id) ==
    [name |-> name, shard_id |-> shard_id, label |-> label, value |-> value,
     chunk |-> id]

\* What pre_validate_chunk_state_witness returns on success for chunk id;
\* id 0 stands for no result.
PreValidationResult(id) == [chunk |-> id]

\* A closure and what was moved into it.
Task(kind, bytes, w) ==
    [kind |-> kind, chunk |-> chunk.id, shard_id |-> chunk.shard_id,
     bytes |-> bytes, witness |-> w,
     pre_validation_result |-> PreValidationResult(0)]

NewLog(shard_id) ==
    [ shard_id      |-> shard_id,
      outcome       |-> "running",  \* how shadow_validate_chunk ended
      counted       |-> 0,          \* increments of failed_total by the driver
      built         |-> NoWitness,  \* the witness as built
      reduced       |-> NoWitness,  \* the clone as reduce left it
      probe_bytes   |-> <<>>,       \* given to compress_state_witness
      probe_witness |-> NoWitness,  \* given to compress_large_storage_proof_values
      probe_after   |-> NoWitness,  \* as that task left its witness
      prevalidated  |-> NoWitness,  \* given to pre_validate_chunk_state_witness
      validation    |-> "none",     \* the validation task: pending, ok, failed
      steps         |-> <<>>,       \* the steps of shadow_validate_chunk, in order
      cache_before  |-> << >>,      \* state_cache when shadow_validate_chunk began
      task_counted  |-> 0,          \* increments of failed_total by the task
      pre_validation_result |-> PreValidationResult(0) ]

InitPipe ==
    /\ feature \in BOOLEAN
    /\ pc = "idle"
    /\ todo = <<>>
    /\ chunk = NoChunk
    /\ result = "none"
    /\ witness = NoWitness
    /\ witness_bytes = <<>>
    /\ tasks = {}
    /\ failed_total = 0
    /\ observations = {}
    /\ size_distribution = [k \in ShardIds \X Labels |-> 0]
    /\ log = <<>>
    /\ in_call = [first |-> 1, new |-> 0]

Init == InitReduce /\ InitPipe

\* The driver without the feature gate of lines 23-25.
BlockStartUngated ==
    /\ pc = "idle"
    /\ Len(log) < MaxChunks
    /\ \E block \in Blocks :
          /\ Len(log) + Len(NewChunks(block)) <= MaxChunks
          /\ \/ /\ result' = "Err(get_block)"
                /\ in_call' = [first |-> Len(log) + 1,
                               new |-> Len(NewChunks(block))]
                /\ UNCHANGED <<pc, todo>>
             \/ /\ result' = "none"
                /\ todo' = NewChunks(block)
                /\ pc' = "loop"
                /\ in_call' = [first |-> Len(log) + 1,
                               new |-> Len(NewChunks(block))]
    /\ UNCHANGED <<feature, localVars, tasks, metricVars, log, reduceVars>>

\* Lines 22-29: the feature gate and the fetch of the previous block.
\* Blocks are taken while fewer than MaxChunks chunks have been validated.
BlockStart ==
    /\ pc = "idle"
    /\ Len(log) < MaxChunks
    /\ \E block \in Blocks :
          /\ Len(log) + Len(NewChunks(block)) <= MaxChunks
          /\ \/ /\ ~feature
                /\ result' = "Ok"
                /\ UNCHANGED <<pc, todo, in_call>>
             \/ /\ feature
                /\ result' = "Err(get_block)"
                /\ in_call' = [first |-> Len(log) + 1,
                               new |-> Len(NewChunks(block))]
                /\ UNCHANGED <<pc, todo>>
             \/ /\ feature
                /\ result' = "none"
                /\ todo' = NewChunks(block)
                /\ pc' = "loop"
                /\ in_call' = [first |-> Len(log) + 1,
                               new |-> Len(NewChunks(block))]
    /\ UNCHANGED <<feature, localVars, tasks, metricVars, log, reduceVars>>

\* Line 48: the loop is over.
BlockDone ==
    /\ pc = "loop"
    /\ todo = <<>>
    /\ result' = "Ok"
    /\ pc' = "idle"
    /\ UNCHANGED <<feature, todo, localVars, tasks, metricVars, log, in_call,
                   reduceVars>>

\* The loop with `continue` on a failed get_chunk: the chunk is skipped.
FetchChunkSkips ==
    /\ pc = "loop"
    /\ todo # <<>>
    /\ \/ /\ todo' = Tail(todo)
          /\ UNCHANGED <<pc, result, chunk, log>>
       \/ /\ chunk' = [id |-> Len(log) + 1, shard_id |-> Head(todo).shard_id]
          /\ todo' = Tail(todo)
          /\ log' = Append(log, [NewLog(Head(todo).shard_id)
                                   EXCEPT !.cache_before = state_cache])
          /\ pc' = "proof"
          /\ UNCHANGED result
    /\ UNCHANGED <<feature, witness, witness_bytes, tasks, metricVars, in_call,
                   reduceVars>>

\* Lines 33-34: get_chunk_clone_from_header(chunk)?
FetchChunk ==
    /\ pc = "loop"
    /\ todo # <<>>
    /\ \/ /\ result' = "Err(get_chunk)"
          /\ pc' = "idle"
          /\ todo' = <<>>
          /\ UNCHANGED <<chunk, log>>
       \/ /\ chunk' = [id |-> Len(log) + 1, shard_id |-> Head(todo).shard_id]
          /\ todo' = Tail(todo)
          /\ log' = Append(log, [NewLog(Head(todo).shard_id)
                                   EXCEPT !.cache_before = state_cache])
          /\ pc' = "proof"
          /\ UNCHANGED result
    /\ UNCHANGED <<feature, witness, witness_bytes, tasks, metricVars, in_call,
                   reduceVars>>

\* The driver with `?` on the orchestrator's result: the error is returned.
ChunkFailedPropagates(reason, lg) ==
    /\ failed_total' = failed_total + 1
    /\ log' = [lg EXCEPT ![chunk.id].outcome = reason, ![chunk.id].counted = @ + 1]
    /\ pc' = "idle"
    /\ result' = "Err(" \o reason \o ")"
    /\ todo' = <<>>
    /\ chunk' = NoChunk
    /\ witness' = NoWitness
    /\ witness_bytes' = <<>>
    /\ UNCHANGED <<feature, tasks, observations, size_distribution,
                   in_call, reduceVars>>

\* A failure that puts every cache back as it was when the orchestrator
\* began with the chunk.
ChunkFailedRollsBack(reason, lg) ==
    /\ failed_total' = failed_total + 1
    /\ log' = [lg EXCEPT ![chunk.id].outcome = reason, ![chunk.id].counted = @ + 1]
    /\ pc' = "loop"
    /\ chunk' = NoChunk
    /\ witness' = NoWitness
    /\ witness_bytes' = <<>>
    /\ state_cache' = log[chunk.id].cache_before
    /\ UNCHANGED <<feature, todo, result, tasks, observations, size_distribution,
                   in_call, cache_updated_count, cache_size_gauge, callVars>>

\* shadow_validate_chunk returns Err; lines 35-46 of the driver count the
\* failure, log it and go on with the loop.
ChunkFailed(reason, lg) ==
    /\ failed_total' = failed_total + 1
    /\ log' = [lg EXCEPT ![chunk.id].outcome = reason, ![chunk.id].counted = @ + 1]
    /\ pc' = "loop"
    /\ chunk' = NoChunk
    /\ witness' = NoWitness
    /\ witness_bytes' = <<>>
    /\ UNCHANGED <<feature, todo, result, tasks, observations, size_distribution,
                   in_call, reduceVars>>

\* Lines 71-81: validate_prepared_transactions
ValidateTransactions ==
    /\ pc = "proof"
    /\ \/ ChunkFailed("proof_generation_failed", log)
       \/ /\ pc' = "build"
          /\ log' = [log EXCEPT ![chunk.id].steps =
                                   Append(@, "validate_prepared_transactions")]
          /\ UNCHANGED <<feature, todo, result, localVars, tasks, metricVars,
                         in_call, reduceVars>>

\* The witness build whose failure (of borsh::to_vec, moved below line 98)
\* shows only after the sizes and the distribution were observed.
BuildWitnessLateFailure ==
    /\ pc = "build"
    /\ \E inp \in WitnessInputs :
          LET w == [ shard_id |-> chunk.shard_id,
                     main_state_transition |-> inp.main,
                     implicit_transitions |-> inp.implicit ]
              bytes == to_vec(w)
              lg == [log EXCEPT
                       ![chunk.id].steps = @ \o
                          <<"create_state_witness_inner", "observe_size",
                            "record_storage_proof_value_size_distribution">>]
          IN  /\ observations' = observations \cup
                   { Obs("total_size", chunk.shard_id, "", BytesLen(bytes), chunk.id) }
              /\ size_distribution' =
                   record_storage_proof_value_size_distribution(size_distribution, w)
              /\ \/ /\ failed_total' = failed_total + 1
                    /\ log' = [lg EXCEPT ![chunk.id].outcome = "witness_build_failed",
                                         ![chunk.id].counted = @ + 1]
                    /\ pc' = "loop"
                    /\ chunk' = NoChunk
                    /\ UNCHANGED <<witness, witness_bytes>>
                 \/ /\ witness' = w
                    /\ witness_bytes' = bytes
                    /\ log' = [lg EXCEPT ![chunk.id].built = w]
                    /\ pc' = "reduce"
                    /\ UNCHANGED <<chunk, failed_total>>
              /\ UNCHANGED <<feature, todo, result, tasks, in_call, reduceVars>>

\* Lines 83-98: create_state_witness_inner and the serialization, either of
\* which may fail (`?`); then the size observations and the size
\* distribution.
BuildWitness ==
    /\ pc = "build"
    /\ \/ ChunkFailed("witness_build_failed", log)
       \/ \E inp \in WitnessInputs :
            LET w == [ shard_id |-> chunk.shard_id,
                       main_state_transition |-> inp.main,
                       implicit_transitions |-> inp.implicit ]
                bytes == to_vec(w)
            IN  /\ witness' = w
                /\ witness_bytes' = bytes
                /\ observations' = observations \cup
                     { Obs("total_size", chunk.shard_id, "", BytesLen(bytes), chunk.id),
                       Obs("reduced_size", chunk.shard_id, "baseline",
                           BytesLen(bytes), chunk.id) }
                /\ size_distribution' =
                     record_storage_proof_value_size_distribution(size_distribution, w)
                /\ log' = [log EXCEPT
                      ![chunk.id].built = w,
                      ![chunk.id].steps = @ \o
                         <<"create_state_witness_inner", "to_vec", "observe_size",
                           "record_storage_proof_value_size_distribution">>]
                /\ pc' = "reduce"
                /\ UNCHANGED <<feature, todo, chunk, result, tasks, failed_total,
                               in_call, reduceVars>>

\* The call with &mut witness for witness.clone(): the caller's witness is
\* the one reduced.
ApplyWitnessStateCacheInPlace ==
    /\ pc = "reduce"
    /\ LET r == apply_witness_state_cache(state_cache, witness)
       IN  /\ state_cache' = r.state_cache
           /\ cache_updated_count' =
                [cache_updated_count EXCEPT ![chunk.shard_id] = @ + r.updates]
           /\ cache_size_gauge' =
                [cache_size_gauge EXCEPT
                   ![chunk.shard_id] = Len(r.state_cache[chunk.shard_id])]
           /\ observations' = observations \cup
                { Obs("reduced_size", chunk.shard_id, "cache_state_values",
                      BytesLen(to_vec(r.witness)), chunk.id) }
           /\ log' = [log EXCEPT
                 ![chunk.id].reduced = r.witness,
                 ![chunk.id].steps = Append(@, "apply_witness_state_cache")]
           /\ witness' = r.witness
    /\ pc' = "probes"
    /\ UNCHANGED <<feature, todo, chunk, result, witness_bytes, tasks,
                   failed_total, size_distribution, in_call, callVars>>

\* Line 99 and lines 162-172: self.apply_witness_state_cache(witness.clone()).
\* The function owns the clone it reduces and drops it on return; the
\* caller's `witness` and `witness_bytes` are not touched.
ApplyWitnessStateCache ==
    /\ pc = "reduce"
    /\ LET r == apply_witness_state_cache(state_cache, witness)
       IN  /\ state_cache' = r.state_cache
           /\ cache_updated_count' =
                [cache_updated_count EXCEPT ![chunk.shard_id] = @ + r.updates]
           /\ cache_size_gauge' =
                [cache_size_gauge EXCEPT
                   ![chunk.shard_id] = Len(r.state_cache[chunk.shard_id])]
           /\ observations' = observations \cup
                { Obs("reduced_size", chunk.shard_id, "cache_state_values",
                      BytesLen(to_vec(r.witness)), chunk.id) }
           /\ log' = [log EXCEPT
                 ![chunk.id].reduced = r.witness,
                 ![chunk.id].steps = Append(@, "apply_witness_state_cache")]
    /\ pc' = "probes"
    /\ UNCHANGED <<feature, todo, localVars, result, tasks,
                   failed_total, size_distribution, in_call, callVars>>

\* Lines 100-111: clones of witness_bytes and of witness move into two
\* closures given to rayon::spawn.
SpawnProbes ==
    /\ pc = "probes"
    /\ tasks' = tasks \cup
         { Task("compress_state_witness", witness_bytes, NoWitness),
           Task("compress_large_storage_proof_values", <<>>, witness) }
    /\ log' = [log EXCEPT
          ![chunk.id].probe_bytes = witness_bytes,
          ![chunk.id].probe_witness = witness,
          ![chunk.id].steps = @ \o <<"spawn_compress_state_witness",
                                     "spawn_compress_large_storage_proof_values">>]
    /\ pc' = "prevalidate"
    /\ UNCHANGED <<feature, todo, localVars, result, metricVars, in_call,
                   reduceVars>>

\* The orchestrator spawning the validation before it looks at the result
\* of pre-validation.
PreValidateSpawnsFirst ==
    /\ pc = "prevalidate"
    /\ LET lg == [log EXCEPT
                    ![chunk.id].prevalidated = witness,
                    ![chunk.id].steps =
                       Append(@, "pre_validate_chunk_state_witness")]
           spawned == tasks \cup
                        { [Task("validate_chunk_state_witness", <<>>, witness)
                             EXCEPT !.pre_validation_result =
                                       PreValidationResult(chunk.id)] }
       IN  \/ /\ tasks' = spawned
              /\ failed_total' = failed_total + 1
              /\ log' = [lg EXCEPT ![chunk.id].outcome = "pre_validation_failed",
                                   ![chunk.id].counted = @ + 1]
              /\ UNCHANGED <<observations, size_distribution>>
           \/ /\ tasks' = spawned
              /\ log' = [lg EXCEPT
                    ![chunk.id].outcome = "ok",
                    ![chunk.id].validation = "pending",
                    ![chunk.id].pre_validation_result =
                       PreValidationResult(chunk.id),
                    ![chunk.id].steps =
                       Append(@, "spawn_validate_chunk_state_witness")]
              /\ UNCHANGED metricVars
    /\ pc' = "loop"
    /\ chunk' = NoChunk
    /\ witness' = NoWitness
    /\ witness_bytes' = <<>>
    /\ UNCHANGED <<feature, todo, result, in_call, reduceVars>>

\* Lines 113-160: pre_validate_chunk_state_witness(&witness, ..)?; then the
\* witness and the result move into the closure that validates, and
\* shadow_validate_chunk returns Ok(()).
PreValidate ==
    /\ pc = "prevalidate"
    /\ LET lg == [log EXCEPT
                    ![chunk.id].prevalidated = witness,
                    ![chunk.id].steps =
                       Append(@, "pre_validate_chunk_state_witness")]
       IN  \/ ChunkFailed("pre_validation_failed", lg)
           \/ /\ tasks' = tasks \cup
                   { [Task("validate_chunk_state_witness", <<>>, witness)
                        EXCEPT !.pre_validation_result =
                                  PreValidationResult(chunk.id)] }
              /\ log' = [lg EXCEPT
                    ![chunk.id].outcome = "ok",
                    ![chunk.id].validation = "pending",
                    ![chunk.id].pre_validation_result =
                       PreValidationResult(chunk.id),
                    ![chunk.id].steps =
                       Append(@, "spawn_validate_chunk_state_witness")]
              /\ pc' = "loop"
              /\ chunk' = NoChunk
              /\ witness' = NoWitness
              /\ witness_bytes' = <<>>
              /\ UNCHANGED <<feature, todo, result, metricVars, in_call,
                             reduceVars>>

(***************************************************************************)
(* The detached tasks.  Each owns what was moved into its closure.  The    *)
(* elapsed times they observe are not modelled.                            *)
(***************************************************************************)
\* Lines 239-251: compress_state_witness(shard_id, witness_bytes)
RunCompressStateWitness(t) ==
    /\ t.kind = "compress_state_witness"
    /\ LET compressed_bytes == encode_all(t.bytes, 3)
       IN  /\ decode_all(compressed_bytes) = t.bytes
           /\ observations' = observations \cup
                { Obs("reduced_size", t.shard_id, "compress_witness_level_3",
                      BytesLen(compressed_bytes), t.chunk) }
    /\ tasks' = tasks \ {t}
    /\ UNCHANGED <<feature, pc, todo, localVars, result, failed_total,
                   size_distribution, log, in_call, reduceVars>>

\* The task working on the orchestrator's witness instead of a clone.
RunCompressLargeValuesShared(t) ==
    /\ t.kind = "compress_large_storage_proof_values"
    /\ LET w == CompressLargeValues(t.witness)
       IN  /\ observations' = observations \cup
                { Obs("reduced_size", t.shard_id, "compress_storage_proof_values",
                      BytesLen(to_vec(w)), t.chunk) }
           /\ log' = [log EXCEPT ![t.chunk].probe_after = w]
           /\ witness' = IF chunk.id = t.chunk THEN w ELSE witness
    /\ tasks' = tasks \ {t}
    /\ UNCHANGED <<feature, pc, todo, chunk, witness_bytes, result, failed_total,
                   size_distribution, in_call, reduceVars>>

\* Lines 253-283: compress_large_storage_proof_values(witness)
RunCompressLargeValues(t) ==
    /\ t.kind = "compress_large_storage_proof_values"
    /\ LET w == CompressLargeValues(t.witness)
       IN  /\ observations' = observations \cup
                { Obs("reduced_size", t.shard_id, "compress_storage_proof_values",
                      BytesLen(to_vec(w)), t.chunk) }
           /\ log' = [log EXCEPT ![t.chunk].probe_after = w]
    /\ tasks' = tasks \ {t}
    /\ UNCHANGED <<feature, pc, todo, localVars, result, failed_total,
                   size_distribution, in_call, reduceVars>>

\* A validation whose error is handed back to the caller of the
\* orchestrator, as if the task were awaited.
RunValidateSurfaces(t) ==
    /\ t.kind = "validate_chunk_state_witness"
    /\ \/ /\ log' = [log EXCEPT ![t.chunk].validation = "ok"]
          /\ UNCHANGED <<failed_total, result>>
       \/ /\ log' = [log EXCEPT ![t.chunk].validation = "failed",
                                ![t.chunk].task_counted = @ + 1,
                                ![t.chunk].outcome = "validation_failed"]
          /\ failed_total' = failed_total + 1
          /\ result' = "Err(validation)"
    /\ tasks' = tasks \ {t}
    /\ UNCHANGED <<feature, pc, todo, localVars, observations,
                   size_distribution, in_call, reduceVars>>

\* A task with the increment outside the match: it counts a validation
\* that succeeded too.
RunValidateCountsAlways(t) ==
    /\ t.kind = "validate_chunk_state_witness"
    /\ \/ log' = [log EXCEPT ![t.chunk].validation = "ok",
                             ![t.chunk].task_counted = @ + 1]
       \/ log' = [log EXCEPT ![t.chunk].validation = "failed",
                             ![t.chunk].task_counted = @ + 1]
    /\ failed_total' = failed_total + 1
    /\ tasks' = tasks \ {t}
    /\ UNCHANGED <<feature, pc, todo, localVars, result, observations,
                   size_distribution, in_call, reduceVars>>

\* Lines 130-158: validate_chunk_state_witness(witness, ..) and its match.
RunValidate(t) ==
    /\ t.kind = "validate_chunk_state_witness"
    /\ \/ /\ log' = [log EXCEPT ![t.chunk].validation = "ok"]
          /\ UNCHANGED failed_total
       \/ /\ log' = [log EXCEPT ![t.chunk].validation = "failed",
                                ![t.chunk].task_counted = @ + 1]
          /\ failed_total' = failed_total + 1
    /\ tasks' = tasks \ {t}
    /\ UNCHANGED <<feature, pc, todo, localVars, result, observations,
                   size_distribution, in_call, reduceVars>>

RunTask ==
    \E t \in tasks :
       \/ RunCompressStateWitness(t)
       \/ RunCompressLargeValues(t)
       \/ RunValidate(t)

Next ==
    \/ BlockStart
    \/ BlockDone
    \/ FetchChunk
    \/ ValidateTransactions
    \/ BuildWitness
    \/ ApplyWitnessStateCache
    \/ SpawnProbes
    \/ PreValidate
    \/ RunTask

Spec == Init /\ [][Next]_vars

ReduceInit == Init /\ feature = TRUE

ReduceSpec == ReduceInit /\ [][ReduceNext]_vars

(***************************************************************************)
(* RecordSpec: calls of record_storage_proof_value_size_distribution, one  *)
(* after another, on witnesses whose values have lengths at and around the *)
(* ends of the ranges.                                                     *)
(***************************************************************************)
BoundaryLens ==
    {0, 5, 99, 100, 999, 1000, 3999, 4000, 15999, 16000, 31999, 32000, 50000,
     63999, 64000, 127999, 128000, 200000}

RecordInputs ==
    { [main |-> <<V(n, 1)>>, implicit |-> <<>>] : n \in BoundaryLens }
      \cup { [main |-> <<>>, implicit |-> <<>>],
             [main |-> <<V(5, 1), V(50000, 1)>>, implicit |-> <<>>],
             [main |-> <<V(32000, 1)>>,
              implicit |-> << <<V(100, 1), V(128000, 1)>>, <<>>, <<V(32000, 2)>> >>] }

\* One call of the recorder with &w; `witness` keeps the argument.
Record ==
    /\ ncalls < MaxRecords
    /\ \E shard_id \in ShardIds, inp \in RecordInputs :
          LET w == [ shard_id |-> shard_id,
                     main_state_transition |-> inp.main,
                     implicit_transitions |-> inp.implicit ]
          IN  /\ witness' = w
              /\ size_distribution' =
                   record_storage_proof_value_size_distribution(size_distribution, w)
    /\ ncalls' = ncalls + 1
    /\ UNCHANGED <<cacheVars, call, kept_large, feature, pc, todo, chunk, result,
                   witness_bytes, tasks, failed_total, observations, log, in_call>>

RecordNext == Record

RecordSpec == ReduceInit /\ [][RecordNext]_vars

(***************************************************************************)
(* Claims about the driver, the orchestrator and the tasks, under Spec.    *)
(***************************************************************************)
Chunks == 1..Len(log)

OrchestratorFailed(c) ==
    log[c].outcome \in
      {"proof_generation_failed", "witness_build_failed", "pre_validation_failed"}

\* The values reduce removed from the clone of chunk c's witness.
Elided(c) ==
    {v \in SeqRange(WitnessValues(log[c].built)) :
       Count(WitnessValues(log[c].reduced), v) < Count(WitnessValues(log[c].built), v)}

Reduced(c) == log[c].reduced # NoWitness

TaskStep == \E t \in tasks : tasks' = tasks \ {t}

\* C10 (nothing mutable is shared with the detached tasks): whenever a
\* detached task runs, however it is interleaved with the synchronous path,
\* it leaves every shard's cache (and the cache metrics) as they are, and it
\* leaves the orchestrator's witness and witness bytes, which go to
\* pre-validation and validation, as they are.
C10_TasksShareNothing ==
    [][TaskStep => UNCHANGED <<cacheVars, witness, witness_bytes>>]_vars

\* The per-value probe of the chunk has replaced a value by its compressed
\* bytes while the orchestrator, about to pre-validate, still holds the
\* witness as built.
C10_Witness ==
    /\ pc = "prevalidate"
    /\ log[chunk.id].probe_after # NoWitness
    /\ log[chunk.id].probe_after # log[chunk.id].probe_witness
    /\ witness = log[chunk.id].built
    /\ state_cache # << >>

(***************************************************************************)
(* Claims about the order and the effects of the steps of one chunk.       *)
(***************************************************************************)
RECURSIVE SumLen(_)
SumLen(values) ==
    IF values = <<>> THEN 0 ELSE Head(values).len + SumLen(Tail(values))

RECURSIVE SumOver(_, _)
SumOver(f, keys) ==
    IF keys = {} THEN 0
    ELSE LET k == CHOOSE x \in keys : TRUE
         IN  f[k] + SumOver(f, keys \ {k})

\* Position of a step in the trace of chunk c; 0 if it did not run.
StepAt(c, name) ==
    LET at == {i \in 1..Len(log[c].steps) : log[c].steps[i] = name}
    IN  IF at = {} THEN 0 ELSE CHOOSE i \in at : \A j \in at : i <= j

Ran(c, name) == StepAt(c, name) > 0

Built(c) == log[c].built # NoWitness

\* The bytes of the proof values built into the witnesses of shard s.
BuiltBytes(s) ==
    SumOver([c \in Chunks |-> IF log[c].shard_id = s /\ Built(c)
                                THEN SumLen(WitnessValues(log[c].built))
                                ELSE 0],
            Chunks)

DistributionTotal(s) ==
    SumOver([l \in Labels |-> size_distribution[<<s, l>>]], Labels)

\* C11 (recording precedes reduction): for every chunk, the distribution is
\* recorded before reduce is called, and it observes the witness as built:
\* the distribution of a shard has counted the bytes of every value built
\* into the witnesses of the shard, the values reduce elided included.
C11_RecordBeforeReduce ==
    /\ \A c \in Chunks :
          /\ Ran(c, "apply_witness_state_cache") =>
                /\ Ran(c, "record_storage_proof_value_size_distribution")
                /\ StepAt(c, "record_storage_proof_value_size_distribution")
                     < StepAt(c, "apply_witness_state_cache")
          /\ Ran(c, "record_storage_proof_value_size_distribution") <=> Built(c)
          /\ Reduced(c) <=> Ran(c, "apply_witness_state_cache")
    /\ \A s \in ShardIds : DistributionTotal(s) = BuiltBytes(s)

\* Reduce has elided values of a chunk, and their bytes are in the
\* distribution of the shard.
C11_Witness ==
    \E c \in Chunks :
       /\ Reduced(c)
       /\ Elided(c) # {}
       /\ DistributionTotal(log[c].shard_id) = BuiltBytes(log[c].shard_id)
       /\ SumLen(WitnessValues(log[c].built))
            > SumLen(WitnessValues(log[c].reduced))

EarlyFailures == {"proof_generation_failed", "witness_build_failed"}

\* C12 (early exit): a chunk whose proof generation or witness build failed
\* got an error from the orchestrator, and no later step ran for it: no
\* size or distribution observation, no cache lookup or insertion (every
\* shard's cache, recency included, is as it was when the orchestrator
\* began), no probe or validation task, no pre-validation.
C12_EarlyExit ==
    \A c \in Chunks :
       log[c].outcome \in EarlyFailures =>
          /\ log[c].counted = 1
          /\ log[c].steps =
               (IF log[c].outcome = "proof_generation_failed"
                THEN <<>> ELSE <<"validate_prepared_transactions">>)
          /\ \A o \in observations : o.chunk # c
          /\ log[c].built = NoWitness
          /\ DistributionTotal(log[c].shard_id) = BuiltBytes(log[c].shard_id)
          /\ log[c].reduced = NoWitness
          /\ IF c = Len(log)
             THEN state_cache = log[c].cache_before
             ELSE log[c + 1].cache_before = log[c].cache_before
          /\ \A t \in tasks : t.chunk # c
          /\ log[c].probe_witness = NoWitness
          /\ log[c].probe_bytes = <<>>
          /\ log[c].validation = "none"
          /\ log[c].prevalidated = NoWitness

\* After a chunk that filled the cache and whose tasks are still pending,
\* the next chunk of the shard fails in the witness build.
C12_Witness ==
    \E c \in Chunks :
       /\ c > 1
       /\ log[c].outcome = "witness_build_failed"
       /\ log[c].shard_id = log[c - 1].shard_id
       /\ log[c - 1].outcome = "ok"
       /\ log[c].cache_before # << >>
       /\ state_cache = log[c].cache_before
       /\ tasks # {}

\* The chunks the current (or last) block-level call gave to the orchestrator.
Invoked == Len(log) - in_call.first + 1

\* C13 (only fetch errors abort the block-level call): the call returns Ok
\* or the error of a fetch, never an orchestrator's error; when get_block
\* fails no chunk is given to the orchestrator; when get_chunk fails for
\* the k-th new chunk the call is over with k-1 chunks given to the
\* orchestrator and none of the others; when no fetch fails every new chunk
\* is given to the orchestrator and the call returns Ok.
C13_FetchErrorsAbort ==
    /\ result \in {"none", "Ok", "Err(get_block)", "Err(get_chunk)"}
    /\ result = "Err(get_block)" =>
          /\ pc = "idle"
          /\ Invoked = 0
    /\ result = "Err(get_chunk)" =>
          /\ pc = "idle"
          /\ todo = <<>>
          /\ Invoked < in_call.new
    /\ (feature /\ result = "Ok") =>
          /\ pc = "idle"
          /\ Invoked = in_call.new
    /\ result = "none" => (pc = "idle" => Len(log) = 0)

\* Of two new chunks the first was shadow validated and failed; get_chunk
\* failed for the second, and the call returned that error.
C13_Witness ==
    /\ result = "Err(get_chunk)"
    /\ in_call.new = 2
    /\ Invoked = 1
    /\ OrchestratorFailed(Len(log))
    /\ pc = "idle"

\* C14 (a disabled pipeline is a no-op): without the build feature every
\* block-level call returns Ok, and nothing else ever happens: no fetch
\* (none can fail), no chunk given to the orchestrator, no task, no metric,
\* no cache of any shard.
C14_DisabledNoOp ==
    ~feature =>
       /\ result \in {"none", "Ok"}
       /\ pc = "idle"
       /\ todo = <<>>
       /\ log = <<>>
       /\ chunk = NoChunk
       /\ witness = NoWitness
       /\ witness_bytes = <<>>
       /\ tasks = {}
       /\ failed_total = 0
       /\ observations = {}
       /\ \A k \in DOMAIN size_distribution : size_distribution[k] = 0
       /\ state_cache = << >>
       /\ \A s \in ShardIds : cache_updated_count[s] = 0 /\ cache_size_gauge[s] = 0

\* A block was handed to the disabled driver, which returned Ok.
C14_Witness == ~feature /\ result = "Ok"

(***************************************************************************)
(* Claims about record_storage_proof_value_size_distribution, under        *)
(* RecordSpec.                                                             *)
(***************************************************************************)
\* The table of the buckets [lo, hi) with their labels; hi = -1 is inf.
Buckets ==
    << [lo |-> 0,      hi |-> 100,    label |-> "0..100"],
       [lo |-> 100,    hi |-> 1000,   label |-> "100..1000"],
       [lo |-> 1000,   hi |-> 4000,   label |-> "1000..4000"],
       [lo |-> 4000,   hi |-> 16000,  label |-> "4000..16000"],
       [lo |-> 16000,  hi |-> 32000,  label |-> "16000..32000"],
       [lo |-> 32000,  hi |-> 64000,  label |-> "32000..64000"],
       [lo |-> 64000,  hi |-> 128000, label |-> "64000..128000"],
       [lo |-> 128000, hi |-> -1,     label |-> "128000..inf"] >>

InBucket(b, n) == b.lo <= n /\ (b.hi = -1 \/ n < b.hi)

\* C15 (size bucketing): a call of the recorder adds, for the witness's
\* shard, to every bucket [lo, hi) the byte lengths of the values of the
\* main and implicit transitions with lo <= length < hi, and nothing to
\* the buckets of another shard; each value is in exactly one bucket, so
\* the sum over the buckets grows by the total byte length of the values.
C15_SizeBucketing ==
    [][ ncalls' = ncalls + 1 =>
          LET w  == witness'
              vs == WitnessValues(w)
              grown(s, l) == size_distribution'[<<s, l>>] - size_distribution[<<s, l>>]
          IN  /\ DOMAIN size_distribution' = ShardIds \X {Buckets[i].label : i \in 1..8}
              /\ \A i \in 1..Len(vs) :
                    Cardinality({b \in 1..8 : InBucket(Buckets[b], vs[i].len)}) = 1
              /\ \A s \in ShardIds, b \in 1..8 :
                    grown(s, Buckets[b].label) =
                      IF s = w.shard_id
                      THEN SumLen(SelectSeq(vs, LAMBDA v : InBucket(Buckets[b], v.len)))
                      ELSE 0
              /\ SumOver([b \in 1..8 |-> grown(w.shard_id, Buckets[b].label)], 1..8)
                   = SumLen(vs)
      ]_vars

\* A witness with a 5-byte and a 50000-byte value was recorded, then one
\* with a 32000-byte value, for the same shard: 5 is in [0,100), and
\* [32000,64000) holds 50000 + 32000.
C15_Witness ==
    /\ ncalls = 2
    /\ witness.main_state_transition = <<V(32000, 1)>>
    /\ witness.implicit_transitions = <<>>
    /\ \A b \in 1..8 :
          size_distribution[<<witness.shard_id, Buckets[b].label>>] =
             (IF b = 1 THEN 5 ELSE IF b = 6 THEN 82000 ELSE 0)

(***************************************************************************)
(* Claims about the validation task, under Spec.                           *)
(***************************************************************************)
ValidationTasks(c) ==
    {t \in tasks : t.kind = "validate_chunk_state_witness" /\ t.chunk = c}

\* C16 (validation errors are invisible to the caller): a chunk has a
\* validation task exactly when its pre-validation succeeded, and then the
\* orchestrator has returned success: whether the task is still pending,
\* has succeeded or has failed, the chunk's outcome is Ok, the driver has
\* not counted it, and the block-level call does not return an error for
\* it.  A failed validation has incremented the failure counter, once, and
\* changed nothing else.
C16_ValidationInvisible ==
    /\ \A c \in Chunks :
          /\ log[c].validation # "none" <=> log[c].outcome = "ok"
          /\ log[c].validation # "none" =>
                /\ log[c].prevalidated # NoWitness
                /\ log[c].counted = 0
                /\ log[c].validation \in {"pending", "ok", "failed"}
                /\ log[c].validation = "pending" <=> ValidationTasks(c) # {}
                /\ log[c].task_counted = (IF log[c].validation = "failed" THEN 1 ELSE 0)
                /\ c >= in_call.first => result \in {"none", "Ok", "Err(get_chunk)"}
          /\ log[c].validation = "none" => log[c].task_counted = 0
    /\ failed_total =
          SumOver([c \in Chunks |-> log[c].counted + log[c].task_counted], Chunks)

\* The block-level call has returned Ok for two chunks; the validation of
\* the first has failed since, that of the second has not run yet.
C16_Witness ==
    /\ pc = "idle"
    /\ result = "Ok"
    /\ in_call.new = 2
    /\ Len(log) = in_call.first + 1
    /\ log[in_call.first].outcome = "ok"
    /\ log[in_call.first].validation = "failed"
    /\ log[in_call.first + 1].validation = "pending"
    /\ failed_total = 1

(***************************************************************************)
(* Claims about the recency order of the cache, under ReduceSpec.          *)
(***************************************************************************)
\* The large values the last call kept, as they stand in its output.
KeptLarge == SelectSeq(call.output, LAMBDA v : v.len >= CUT_OFF_VALUE_SIZE)

\* C17 (insertion order within one call): the kept values of length
\* >= 32000 are inserted from the largest to the smallest: the keys pushed
\* are the hashes of the kept large values from the last (largest) of the
\* sorted list to the first (smallest); after the call the most recently
\* used entry is the smallest kept large value; and the entries inserted
\* by the call (when different, and at most 1000) are the most recent ones
\* of the cache in that order, so that the largest of them is the least
\* recently used and the first to be evicted.
C17_InsertionOrder ==
    (Called /\ KeptLarge # <<>>) =>
       LET large == KeptLarge
           k     == Len(large)
           after == state_cache[call.shard]
       IN  /\ call.pushed = [i \in 1..k |-> hash_bytes(large[k + 1 - i])]
           /\ \A i \in 1..(k - 1) : large[i].len <= large[i + 1].len
           /\ after[Len(after)] = hash_bytes(large[1])
           /\ \A i \in 1..k : large[1].len <= large[i].len
           /\ (Distinct(call.pushed) /\ k <= MAX_CACHE_SIZE) =>
                 /\ SubSeq(after, Len(after) - k + 1, Len(after)) = call.pushed
                 /\ after[Len(after) - k + 1] = hash_bytes(large[k])
                 /\ \A i \in 1..k : large[i].len <= large[k].len

\* Capacity pressure: one call inserted a 40000-byte value and 999 values
\* of 33000 bytes, which filled the cache; the next call brings a new
\* value, and the entry evicted for it is the 40000-byte one.
C17_Witness ==
    /\ Called
    /\ Len(call.before) = MAX_CACHE_SIZE
    /\ call.input = <<V(33000, MAX_CACHE_SIZE + 1)>>
    /\ call.output = call.input
    /\ Head(call.before) = hash_bytes(V(40000, 1))
    /\ V(40000, 1) \in call.prev
    /\ Cardinality(call.prev) = MAX_CACHE_SIZE
    /\ state_cache[call.shard] =
         Tail(call.before) \o <<hash_bytes(V(33000, MAX_CACHE_SIZE + 1))>>

\* C19 (exact elision rule): the call drops a value if and only if its
\* length is >= 32000 and its hash is in the shard's cache when the call
\* starts.  Every copy of such a value is dropped; every copy of any other
\* value is kept, two identical large values whose hash is not yet cached
\* included.
C19_ExactElision ==
    Called =>
       \A v \in SeqRange(call.input) :
          Count(call.output, v) =
             (IF v.len >= CUT_OFF_VALUE_SIZE
                   /\ LruContains(call.before, hash_bytes(v))
              THEN 0
              ELSE Count(call.input, v))

\* Two identical large values, not cached, in one transition: both are
\* kept, while the cache holds other values.
C19_Witness ==
    /\ Called
    /\ call.before # <<>>
    /\ call.input = <<V(40000, 2), V(40000, 2)>>
    /\ ~LruContains(call.before, hash_bytes(V(40000, 2)))
    /\ call.output = call.input

\* s without the earlier copies of its repeated elements.
DedupLast(s) ==
    LET idx == SelectSeq([i \in 1..Len(s) |-> i],
                         LAMBDA i : \A j \in (i + 1)..Len(s) : s[j] # s[i])
    IN  [n \in 1..Len(idx) |-> s[idx[n]]]

Suffix(s, n) == SubSeq(s, Len(s) - n + 1, Len(s))

\* The hashes the last call found in the cache, in the order of their last
\* lookup.
Hits ==
    LET large == SelectSeq(call.input, LAMBDA v : v.len >= CUT_OFF_VALUE_SIZE)
        keys  == [i \in 1..Len(large) |-> hash_bytes(large[i])]
    IN  DedupLast(SelectSeq(keys, LAMBDA k : LruContains(call.before, k)))

\* C20 (a hit refreshes recency): a large value found in the cache and
\* dropped makes its entry the most recently used one at that moment.  So
\* after the call the cache is, from least to most recently used: the
\* entries the call did not touch, in their old order; the entries it hit,
\* in the order of the hits; the entries it inserted; cut at the front to
\* 1000 entries.  An entry that was hit is therefore evicted only once no
\* untouched entry is left, and with no insertion the last entry hit is
\* the most recently used.
C20_HitRefreshes ==
    Called =>
       LET hits      == Hits
           hitset    == SeqRange(hits)
           pushed    == DedupLast(call.pushed)
           untouched == SelectSeq(call.before, LAMBDA k : k \notin hitset)
           full      == untouched \o hits \o pushed
           after     == state_cache[call.shard]
       IN  /\ after = Suffix(full, IF Len(full) > MAX_CACHE_SIZE
                                   THEN MAX_CACHE_SIZE ELSE Len(full))
           /\ (hits # <<>> /\ call.pushed = <<>>) =>
                 after[Len(after)] = hits[Len(hits)]
           /\ \A h \in hitset :
                 ~LruContains(after, h) =>
                    \A u \in SeqRange(untouched) : ~LruContains(after, u)

\* The least recently used entry of a full cache is hit, and the same call
\* inserts a new value: the entry evicted is the second least recently
\* used one, and the entry hit stays.
C20_Witness ==
    /\ Called
    /\ Len(call.before) = MAX_CACHE_SIZE
    /\ call.input = <<V(33000, MAX_CACHE_SIZE), V(33000, MAX_CACHE_SIZE + 1)>>
    /\ call.output = <<V(33000, MAX_CACHE_SIZE + 1)>>
    /\ Head(call.before) = hash_bytes(V(33000, MAX_CACHE_SIZE))
    /\ state_cache[call.shard] =
         SubSeq(call.before, 3, MAX_CACHE_SIZE)
           \o <<hash_bytes(V(33000, MAX_CACHE_SIZE)),
                hash_bytes(V(33000, MAX_CACHE_SIZE + 1))>>

(***************************************************************************)
(* Claims about the order of the steps of one chunk, under Spec.           *)
(***************************************************************************)
\* The steps of shadow_validate_chunk in the order of its lines.
StepOrder ==
    << "validate_prepared_transactions", "create_state_witness_inner", "to_vec",
       "observe_size", "record_storage_proof_value_size_distribution",
       "apply_witness_state_cache", "spawn_compress_state_witness",
       "spawn_compress_large_storage_proof_values",
       "pre_validate_chunk_state_witness", "spawn_validate_chunk_state_witness" >>

IsPrefix(s, t) == Len(s) <= Len(t) /\ s = SubSeq(t, 1, Len(s))

ProbeTasks(c) ==
    {t \in tasks : t.chunk = c /\ t.kind # "validate_chunk_state_witness"}

\* C18 (step order within a chunk): the steps run one after another in the
\* order of the code.  Pre-validation starts only after reduce has worked
\* through the main and every implicit transition, and it is ready to run
\* whatever the state of the probes; a validation task exists only after
\* pre-validation has succeeded, and holds the witness that was
\* pre-validated and the result pre-validation returned; when
\* pre-validation fails the orchestrator returns the error and there never
\* is a validation task for the chunk.
C18_StepOrder ==
    /\ \A c \in Chunks :
          /\ IsPrefix(log[c].steps, StepOrder)
          /\ Ran(c, "pre_validate_chunk_state_witness") =>
                /\ StepAt(c, "apply_witness_state_cache")
                     < StepAt(c, "pre_validate_chunk_state_witness")
                /\ Reduced(c)
                /\ Len(log[c].reduced.implicit_transitions)
                     = Len(log[c].built.implicit_transitions)
                /\ log[c].probe_witness # NoWitness
          /\ Ran(c, "spawn_validate_chunk_state_witness") <=>
                log[c].validation # "none"
          /\ log[c].validation # "none" =>
                /\ Ran(c, "pre_validate_chunk_state_witness")
                /\ log[c].outcome = "ok"
                /\ log[c].pre_validation_result = PreValidationResult(c)
          /\ log[c].outcome = "pre_validation_failed" =>
                /\ Ran(c, "pre_validate_chunk_state_witness")
                /\ log[c].counted = 1
                /\ log[c].validation = "none"
                /\ log[c].pre_validation_result = PreValidationResult(0)
                /\ ValidationTasks(c) = {}
          /\ \A t \in ValidationTasks(c) :
                /\ log[c].outcome = "ok"
                /\ t.witness = log[c].prevalidated
                /\ t.pre_validation_result = log[c].pre_validation_result
                /\ t.pre_validation_result = PreValidationResult(c)
    /\ pc = "prevalidate" => ENABLED PreValidate

\* Pre-validation of a chunk has failed while both probes of the chunk
\* were still waiting to run: the orchestrator has returned the error and
\* no validation task was spawned.
C18_Witness ==
    \E c \in Chunks :
       /\ log[c].outcome = "pre_validation_failed"
       /\ Reduced(c)
       /\ Cardinality(ProbeTasks(c)) = 2
       /\ ValidationTasks(c) = {}
       /\ pc = "loop"

(***************************************************************************)
(* Claims about the caches across shards and across chunks, under Spec.    *)
(***************************************************************************)
\* state_cache when the orchestrator was done with chunk c (for the chunk
\* in hand: as it is now).  Only the orchestrator touches state_cache.
CacheAfter(c) == IF c = Len(log) THEN state_cache ELSE log[c + 1].cache_before

\* C21 (shard isolation of the cache): reducing the witness of a chunk of
\* shard s leaves the cache of every other shard as it was, content and
\* recency order; what it does to the witness depends on the cache of
\* shard s alone, so a value whose hash is cached only for another shard,
\* and that occurs once in the witness, is not dropped.
C21_ShardIsolation ==
    \A c \in Chunks :
       Reduced(c) =>
          LET sid    == log[c].shard_id
              before == log[c].cache_before
              after  == CacheAfter(c)
              own    == [k \in {sid} \cap DOMAIN before |-> before[k]]
              built  == WitnessValues(log[c].built)
          IN  /\ DOMAIN after = DOMAIN before \cup {sid}
              /\ \A o \in DOMAIN before \ {sid} : after[o] = before[o]
              /\ log[c].reduced =
                   apply_witness_state_cache(own, log[c].built).witness
              /\ after[sid] =
                   apply_witness_state_cache(own, log[c].built).state_cache[sid]
              /\ \A v \in SeqRange(built) :
                    (Count(built, v) = 1
                       /\ ~LruContains(CacheEntry(before, sid), hash_bytes(v)))
                      => v \notin Elided(c)

\* A chunk of shard 3 is reduced after a chunk of shard 0 has cached the
\* 130000-byte value: the value is kept for shard 3, and the cache of
\* shard 0 is as it was.
C21_Witness ==
    \E c \in Chunks :
       /\ Reduced(c)
       /\ log[c].shard_id = 3
       /\ 0 \in DOMAIN log[c].cache_before
       /\ 3 \notin DOMAIN log[c].cache_before
       /\ LruContains(log[c].cache_before[0], hash_bytes(V(130000, 1)))
       /\ Count(WitnessValues(log[c].reduced), V(130000, 1)) = 1
       /\ CacheAfter(c)[0] = log[c].cache_before[0]
       /\ CacheAfter(c)[3] # <<>>

\* state_cache as the steps that ran for chunk c leave it.
ExpectedCacheAfter(c) ==
    IF Reduced(c)
    THEN apply_witness_state_cache(log[c].cache_before, log[c].built).state_cache
    ELSE log[c].cache_before

FailedLate(c) ==
    log[c].outcome = "pre_validation_failed" \/ log[c].validation = "failed"

\* C22 (no rollback of cache updates): whatever happens to a chunk after
\* reduce, a failed pre-validation or a failed validation included, the
\* caches stay as reduce left them: the large values of the chunk are in
\* the cache of its shard, and the next chunk of the shard is reduced
\* against them (every copy of them is dropped from its witness).  A chunk
\* that failed in proof generation or in the witness build leaves every
\* shard's cache as it was.
C22_NoRollback ==
    \A c \in Chunks :
       /\ CacheAfter(c) = ExpectedCacheAfter(c)
       /\ log[c].outcome \in EarlyFailures =>
             CacheAfter(c) = log[c].cache_before
       /\ (FailedLate(c) /\ Reduced(c)) =>
             LET sid   == log[c].shard_id
                 large == LargeOf(WitnessValues(log[c].built))
             IN  /\ \A v \in large :
                       LruContains(CacheAfter(c)[sid], hash_bytes(v))
                 /\ (c < Len(log) /\ log[c + 1].shard_id = sid /\ Reduced(c + 1)) =>
                       \A v \in large :
                          Count(WitnessValues(log[c + 1].reduced), v) = 0

\* Pre-validation of a chunk failed; the next chunk of the same shard
\* brought the 130000-byte value again, and reduce dropped it.
C22_Witness ==
    \E c \in Chunks :
       /\ c < Len(log)
       /\ log[c].outcome = "pre_validation_failed"
       /\ log[c + 1].shard_id = log[c].shard_id
       /\ Reduced(c + 1)
       /\ Count(WitnessValues(log[c + 1].built), V(130000, 1)) = 1
       /\ V(130000, 1) \in Elided(c + 1)
       /\ ~LruContains(CacheEntry(log[c].cache_before, log[c].shard_id),
                       hash_bytes(V(130000, 1)))

\* The chunks whose shadow validation has failed, in a synchronous step or
\* in the validation task.
FailedChunks ==
    {c \in Chunks : OrchestratorFailed(c) \/ log[c].validation = "failed"}

\* C23 (the failure counter counts a chunk at most once): for every chunk
\* given to the orchestrator the counter is incremented once by the driver
\* exactly when a synchronous step failed, once by the validation task
\* exactly when validation failed, never by both and never twice; so the
\* counter equals the number of chunks that failed shadow validation, at
\* every moment and in particular when all the tasks have finished.
C23_CountedOnce ==
    /\ \A c \in Chunks :
          /\ log[c].counted = (IF OrchestratorFailed(c) THEN 1 ELSE 0)
          /\ log[c].task_counted = (IF log[c].validation = "failed" THEN 1 ELSE 0)
          /\ log[c].counted + log[c].task_counted <= 1
          /\ ~(OrchestratorFailed(c) /\ log[c].validation # "none")
    /\ failed_total = Cardinality(FailedChunks)
    /\ failed_total <= Len(log)

\* All tasks have finished: the first chunk failed in pre-validation, the
\* validation of the second failed, and the counter is 2.
C23_Witness ==
    /\ pc = "idle"
    /\ tasks = {}
    /\ Len(log) = 2
    /\ log[1].outcome = "pre_validation_failed"
    /\ log[2].outcome = "ok"
    /\ log[2].validation = "failed"
    /\ failed_total = 2

====
